---- MODULE Spec2Model ----
(***************************************************************************)
(* A model of patrickjane.py, the Microscopy Data Organiser: the sheet     *)
(* name allocator, the per-file pipeline (load, filter, summarise,         *)
(* classify, histogram) and the driver loop that writes one workbook per   *)
(* input file.                                                             *)
(*                                                                         *)
(* Strings are TLA+ strings; a workbook is a sequence of sheets; the disk  *)
(* is a function from the paths that exist to their workbooks.  A row      *)
(* carries the identifier, the two flags and the nuclei count; the values  *)
(* of the other measurement columns are not represented, only which        *)
(* columns a frame or a sheet has.  Header names are taken without         *)
(* surrounding whitespace (line 177 changes nothing then).                 *)
(***************************************************************************)
EXTENDS Integers, Sequences, FiniteSets, TLC

VARIABLES
    args,              \* parsed command line: input, columns, remove_zero_nuclei, histogram
    disk,              \* path -> workbook (sequence of sheets), for every .xlsx that exists
    pc,                \* position of the script
    input_idx,         \* index into args.input of the file being processed
    df,                \* the loaded record set: [columns, rows]
    total_cells,
    total_nuclei,
    infected_summary_df,
    categories,        \* sequence of [name, rows], in dict order
    outfile,
    used_sheet_names,  \* the module-level set of line 83 / 267
    nuclei_distribution,
    combined_sheet,    \* rows of the 'Cell Count Summary' sheet
    chart,             \* rows the bar chart's data and category references cover
    exception,         \* "none", or the uncaught exception that ended the run
    log                \* history: what each call or step did, in order

vars == <<args, disk, pc, input_idx, df, total_cells, total_nuclei,
          infected_summary_df, categories, outfile, used_sheet_names,
          nuclei_distribution, combined_sheet, chart, exception, log>>

(***************************************************************************)
(* Bounds of the model.                                                    *)
(***************************************************************************)
MaxCalls == 4      \* allocator calls in one behaviour of SpecAlloc
MaxRows == 2       \* rows of an enumerated record set
MaxNuclei == 3     \* largest enumerated Children_Nuclei_Count
MaxBin == 3        \* largest enumerated --histogram value
MaxCols == 2       \* length of an enumerated -c list
MaxInputs == 2     \* number of input files on the command line

(***************************************************************************)
(* Python helpers.                                                         *)
(***************************************************************************)
Min(a, b) == IF a <= b THEN a ELSE b
Max(a, b) == IF a >= b THEN a ELSE b

\* s[:n], negative n counting from the end
SliceTo(s, n) ==
    IF n >= 0 THEN SubSeq(s, 1, Min(n, Len(s)))
    ELSE SubSeq(s, 1, Max(0, Len(s) + n))

\* s[n:], n >= 0
SliceFrom(s, n) == SubSeq(s, Min(n, Len(s)) + 1, Len(s))

Range(s) == {s[i] : i \in 1..Len(s)}

RECURSIVE SumSeq(_)
SumSeq(s) == IF s = <<>> THEN 0 ELSE Head(s) + SumSeq(Tail(s))

(***************************************************************************)
(* get_unique_sheet_name (lines 86-98).  max_length is only ever the       *)
(* default.  The while loop is UniqueLoop; the result carries the set with *)
(* the name added and the number of loop iterations taken.                 *)
(***************************************************************************)
max_length == 25

RECURSIVE UniqueLoop(_, _, _, _)
UniqueLoop(base_name, unique_name, counter, used) ==
    IF unique_name \in used
    THEN LET suffix == "_" \o ToString(counter)
         IN  UniqueLoop(base_name,
                        SliceTo(base_name, max_length - Len(suffix)) \o suffix,
                        counter + 1, used)
    ELSE [name |-> unique_name, iterations |-> counter - 1]

\* a variant without the while loop: the truncated name is returned as it is
NoCollisionCheck(name, used) ==
    [name |-> SliceTo(name, max_length),
     used |-> used \cup {SliceTo(name, max_length)},
     iterations |-> 0]

get_unique_sheet_name(name, used) ==
    LET base_name == SliceTo(name, max_length)
        r == UniqueLoop(base_name, base_name, 1, used)
    IN  [name |-> r.name, used |-> used \cup {r.name}, iterations |-> r.iterations]

(***************************************************************************)
(* The record set.  A row carries the identifier, the two flags and the    *)
(* nuclei count; df.columns says which columns were loaded.  A flag value  *)
(* other than 0 and 1 stands for any non-boolean cell of the CSV.          *)
(***************************************************************************)
FlagValues == {0, 1, 2}

Record(obj, mono, inf, nuclei) ==
    [ObjectNumber |-> obj, Classify_Mononucleated |-> mono,
     Classify_Infected |-> inf, Children_Nuclei_Count |-> nuclei]

fixed_columns == <<"ObjectNumber", "Classify_Mononucleated", "Classify_Infected">>

\* line 157
required_columns(columns) == fixed_columns \o columns

HasColumn(d, col) == col \in Range(d.columns)

\* lines 180-187: df[df["Children_Nuclei_Count"] != 0], when the option is set
filter_zero_nuclei(d, remove_zero_nuclei) ==
    IF remove_zero_nuclei /\ HasColumn(d, "Children_Nuclei_Count")
    THEN [d EXCEPT !.rows = SelectSeq(d.rows, LAMBDA r : r.Children_Nuclei_Count # 0)]
    ELSE d

NucleiSum(rows) == SumSeq([i \in 1..Len(rows) |-> rows[i].Children_Nuclei_Count])

(***************************************************************************)
(* Percentages (lines 231-232): count / total * 100, rounded to 2 places.  *)
(* A percentage is held in hundredths of a percent; numpy rounds half to   *)
(* even; a zero total gives NaN (0/0) or inf (x/0), never an exception.    *)
(***************************************************************************)
RoundHalfEven(num, den) ==
    LET q == num \div den
        r == num % den
    IN  IF 2 * r < den THEN q
        ELSE IF 2 * r > den THEN q + 1
        ELSE IF q % 2 = 0 THEN q ELSE q + 1

Pct(count, total) ==
    IF total = 0
    THEN [kind |-> IF count = 0 THEN "NaN" ELSE "inf", hundredths |-> 0]
    ELSE [kind |-> "number", hundredths |-> RoundHalfEven(count * 10000, total)]

NoPct == [kind |-> "empty", hundredths |-> 0]

SummaryRow(category, cells, nuclei, pc_cells, pc_nuclei) ==
    [kind |-> "summary", Category |-> category, cells |-> cells, nuclei |-> nuclei,
     pct_cells |-> pc_cells, pct_nuclei |-> pc_nuclei]

\* a variant of the overall totals that counts the infected records only
InfectedOnlyTotals(d) ==
    LET infected_summary == SelectSeq(d.rows, LAMBDA r : r.Classify_Infected = 1)
    IN  [cells |-> Len(infected_summary), nuclei |-> NucleiSum(infected_summary)]

\* lines 189-193, 219-221
OverallTotals(d) == [cells |-> Len(d.rows), nuclei |-> NucleiSum(d.rows)]

\* lines 195-244
SummaryTable(d) ==
    LET infected_summary == SelectSeq(d.rows, LAMBDA r : r.Classify_Infected = 1)
        mono_df == SelectSeq(infected_summary, LAMBDA r : r.Classify_Mononucleated = 1)
        multi_df == SelectSeq(infected_summary, LAMBDA r : r.Classify_Mononucleated = 0)
        mono_cell_count == Len(mono_df)
        mono_nuclei_count == NucleiSum(mono_df)
        multi_cell_count == Len(multi_df)
        multi_nuclei_count == NucleiSum(multi_df)
        total_infected_cell_count == mono_cell_count + multi_cell_count
        total_infected_nuclei_count == mono_nuclei_count + multi_nuclei_count
        tot == OverallTotals(d)
    IN  << SummaryRow("Mononucleated Infected", mono_cell_count, mono_nuclei_count,
                      Pct(mono_cell_count, tot.cells), Pct(mono_nuclei_count, tot.nuclei)),
           SummaryRow("Multinucleated Infected", multi_cell_count, multi_nuclei_count,
                      Pct(multi_cell_count, tot.cells), Pct(multi_nuclei_count, tot.nuclei)),
           SummaryRow("Total Infected", total_infected_cell_count, total_infected_nuclei_count,
                      Pct(total_infected_cell_count, tot.cells),
                      Pct(total_infected_nuclei_count, tot.nuclei)),
           SummaryRow("Total incl uninfected", tot.cells, tot.nuclei, NoPct, NoPct) >>

(***************************************************************************)
(* The four category record sets (lines 247-252), in dict order.           *)
(***************************************************************************)
CategoryNames == <<"Mononucleated_Infected", "Multinucleated_Infected",
                   "Mononucleated_Uninfected", "Multinucleated_Uninfected">>

CategoryRows(d, mono, inf) ==
    SelectSeq(d.rows, LAMBDA r : r.Classify_Mononucleated = mono /\ r.Classify_Infected = inf)

Categorise(d, columns) ==
    LET Cat(name, mono, inf) ==
            [name |-> name, columns |-> required_columns(columns),
             rows |-> CategoryRows(d, mono, inf)]
    IN  << Cat(CategoryNames[1], 1, 1), Cat(CategoryNames[2], 0, 1),
           Cat(CategoryNames[3], 1, 0), Cat(CategoryNames[4], 0, 0) >>

(***************************************************************************)
(* The histogram (lines 281-293).  A bin edge is a number or infinity.     *)
(***************************************************************************)
Edge(v) == [inf |-> FALSE, v |-> v]
InfEdge == [inf |-> TRUE, v |-> 0]
EdgeLess(e, x) == ~e.inf /\ e.v < x          \* e < x
LeqEdge(x, e) == e.inf \/ x <= e.v           \* x <= e

\* line 284: list(range(0, max_bin)) + [float('inf')]
Bins(max_bin) == [i \in 1..max_bin |-> Edge(i - 1)] \o <<InfEdge>>

\* line 285
BinLabels(max_bin) ==
    [i \in 1..(max_bin - 1) |-> ToString(i)] \o <<ToString(max_bin) \o "+">>

\* a variant with right=False: intervals closed on the left
CutLeftClosed(x, bins) ==
    LET hits == {i \in 1..(Len(bins) - 1) :
                    /\ ~bins[i].inf /\ bins[i].v <= x
                    /\ (bins[i + 1].inf \/ x < bins[i + 1].v)}
    IN  IF hits = {} THEN 0 ELSE CHOOSE i \in hits : TRUE

\* pd.cut(x, bins, right=True, include_lowest=True): the index of x's interval,
\* 0 when x falls in none (NaN, which value_counts drops)
Cut(x, bins) ==
    LET hits == {i \in 1..(Len(bins) - 1) :
                    \/ EdgeLess(bins[i], x) /\ LeqEdge(x, bins[i + 1])
                    \/ i = 1 /\ ~bins[1].inf /\ x = bins[1].v}
    IN  IF hits = {} THEN 0 ELSE CHOOSE i \in hits : TRUE

BucketRow(label, count) == [kind |-> "bucket", Category |-> label, cells |-> count]

\* a variant that leaves out the labels no record falls under
SparseDistribution(d, max_bin) ==
    LET infected == SelectSeq(d.rows, LAMBDA r : r.Classify_Infected = 1)
        binned == [i \in 1..Len(infected) |->
                      Cut(infected[i].Children_Nuclei_Count, Bins(max_bin))]
        labels == BinLabels(max_bin)
        all == [b \in 1..Len(labels) |->
                   BucketRow(labels[b], Cardinality({i \in 1..Len(binned) : binned[i] = b}))]
    IN  SelectSeq(all, LAMBDA row : row.cells > 0)

\* lines 282-293.  binned.value_counts().sort_index(): one row per label, in
\* label order, zero counts included (the labels are the categories of a
\* Categorical)
NucleiDistribution(d, max_bin) ==
    LET infected_nuclei_counts ==
            LET infected_summary == SelectSeq(d.rows, LAMBDA r : r.Classify_Infected = 1)
            IN  [i \in 1..Len(infected_summary) |-> infected_summary[i].Children_Nuclei_Count]
        bins == Bins(max_bin)
        bin_labels == BinLabels(max_bin)
        binned == [i \in 1..Len(infected_nuclei_counts) |-> Cut(infected_nuclei_counts[i], bins)]
    IN  [b \in 1..Len(bin_labels) |->
            BucketRow(bin_labels[b], Cardinality({i \in 1..Len(binned) : binned[i] = b}))]

\* lines 296-301: summary, two blank rows, the section header, the histogram
SectionHeader == "Nuclei Distribution in Infected Cells"

CombinedSheet(summary, distribution) ==
    summary \o <<[kind |-> "blank"], [kind |-> "blank"]>>
            \o <<[kind |-> "header", Category |-> SectionHeader]>>
            \o distribution

(***************************************************************************)
(* The chart's references (lines 312-338).  Sheet row 1 is the header row  *)
(* of the written table, so data row i is sheet row i + 1.  The search     *)
(* keeps the last match; with no match start_row is unbound (NameError).   *)
(***************************************************************************)
ChartRange(rows, histogram) ==
    LET matches == {i \in 1..Len(rows) :
                      rows[i].kind = "header" /\ rows[i].Category = SectionHeader}
        cell_row == (CHOOSE i \in matches : \A j \in matches : j <= i) + 1
        start_row == cell_row + 1
    IN  [min_row |-> start_row, max_row |-> start_row + histogram - 1]

\* the data row of the combined sheet that a sheet row shows
DataRow(sheet_row) == sheet_row - 1

(***************************************************************************)
(* Values the variables hold where a specification does not use them.      *)
(***************************************************************************)
DefaultColumns == <<"AreaShape_Area", "Children_Nuclei_Count">>   \* line 60
DefaultHistogram == 5                                             \* line 69

NoFrame == [columns |-> <<>>, rows |-> <<>>]
NoChart == [min_row |-> 0, max_row |-> 0]

Idle ==
    /\ disk = <<>>
    /\ input_idx = 0
    /\ total_cells = 0
    /\ total_nuclei = 0
    /\ infected_summary_df = <<>>
    /\ categories = <<>>
    /\ outfile = ""
    /\ used_sheet_names = {}
    /\ nuclei_distribution = <<>>
    /\ combined_sheet = <<>>
    /\ chart = NoChart
    /\ exception = "none"
    /\ log = <<>>

(***************************************************************************)
(* SpecAlloc: any sequence of get_unique_sheet_name calls, and the reset   *)
(* of line 267 that starts a new artifact's scope.                         *)
(***************************************************************************)
CandidateNames ==
    {"Mononucleated_Infected", "Multinucleated_Uninfected",
     "Multinucleated_Uninfected Summary", "Multinucleated_Uninfect_1",
     "Children_Nuclei_Count Summary", "Children_Nuclei_Count Sum"}

InitAlloc ==
    /\ Idle
    /\ args = [input |-> <<>>, columns |-> DefaultColumns,
               remove_zero_nuclei |-> FALSE, histogram |-> DefaultHistogram]
    /\ df = NoFrame
    /\ pc = "alloc"

AllocCall(name) ==
    /\ pc = "alloc"
    /\ Len(log) < MaxCalls
    /\ LET r == get_unique_sheet_name(name, used_sheet_names)
       IN  /\ used_sheet_names' = r.used
           /\ log' = Append(log, [candidate |-> name, name |-> r.name,
                                   before |-> used_sheet_names,
                                   iterations |-> r.iterations])
    /\ UNCHANGED <<args, disk, pc, input_idx, df, total_cells, total_nuclei,
                   infected_summary_df, categories, outfile, nuclei_distribution,
                   combined_sheet, chart, exception>>

AllocReset ==
    /\ pc = "alloc"
    /\ log # <<>>
    /\ used_sheet_names' = {}
    /\ log' = <<>>
    /\ UNCHANGED <<args, disk, pc, input_idx, df, total_cells, total_nuclei,
                   infected_summary_df, categories, outfile, nuclei_distribution,
                   combined_sheet, chart, exception>>

NextAlloc ==
    \/ \E name \in CandidateNames : AllocCall(name)
    \/ AllocReset

SpecAlloc == InitAlloc /\ [][NextAlloc]_vars

(***************************************************************************)
(* SpecData: the pure steps of the pipeline applied to one loaded record   *)
(* set: the zero-nuclei filter, the summary table, the four-way split and  *)
(* the histogram with the combined sheet and the chart's references.       *)
(***************************************************************************)
RowValues == FlagValues \X FlagValues \X (0..MaxNuclei)

MakeRows(f) == [i \in 1..Len(f) |-> Record(i, f[i][1], f[i][2], f[i][3])]

RecordSets == {MakeRows(f) : f \in UNION {[1..n -> RowValues] : n \in 0..MaxRows}}

\* nuclei counts 1,1,2,5,7, all infected, with --histogram 5
ExampleHistogramRows ==
    MakeRows(<< <<1, 1, 1>>, <<1, 1, 1>>, <<0, 1, 2>>, <<0, 1, 5>>, <<0, 1, 7>> >>)

\* 10 records: 4 mono-infected (8 nuclei), 2 multi-infected (5 nuclei), 20 nuclei overall
ExampleSummaryRows ==
    MakeRows(<< <<1, 1, 2>>, <<1, 1, 2>>, <<1, 1, 1>>, <<1, 1, 3>>,
                <<0, 1, 2>>, <<0, 1, 3>>,
                <<1, 0, 1>>, <<1, 0, 2>>, <<0, 0, 4>>, <<0, 0, 0>> >>)

InitData ==
    /\ Idle
    /\ pc = "filter"
    /\ \E rz \in BOOLEAN :
          \/ \E rows \in RecordSets, h \in 2..MaxBin :
                /\ args = [input |-> <<>>, columns |-> DefaultColumns,
                           remove_zero_nuclei |-> rz, histogram |-> h]
                /\ df = [columns |-> required_columns(DefaultColumns), rows |-> rows]
          \/ \E rows \in {ExampleHistogramRows, ExampleSummaryRows} :
                /\ args = [input |-> <<>>, columns |-> DefaultColumns,
                           remove_zero_nuclei |-> rz, histogram |-> DefaultHistogram]
                /\ df = [columns |-> required_columns(DefaultColumns), rows |-> rows]

\* lines 179-187
DataFilter ==
    /\ pc = "filter"
    /\ df' = filter_zero_nuclei(df, args.remove_zero_nuclei)
    /\ pc' = "summary"
    /\ UNCHANGED <<args, disk, input_idx, total_cells, total_nuclei,
                   infected_summary_df, categories, outfile, used_sheet_names,
                   nuclei_distribution, combined_sheet, chart, exception, log>>

\* lines 189-244
DataSummarise ==
    /\ pc = "summary"
    /\ total_cells' = OverallTotals(df).cells
    /\ total_nuclei' = OverallTotals(df).nuclei
    /\ infected_summary_df' = SummaryTable(df)
    /\ pc' = "classify"
    /\ UNCHANGED <<args, disk, input_idx, df, categories, outfile, used_sheet_names,
                   nuclei_distribution, combined_sheet, chart, exception, log>>

\* lines 246-252
DataClassify ==
    /\ pc = "classify"
    /\ categories' = Categorise(df, args.columns)
    /\ pc' = "histogram"
    /\ UNCHANGED <<args, disk, input_idx, df, total_cells, total_nuclei,
                   infected_summary_df, outfile, used_sheet_names,
                   nuclei_distribution, combined_sheet, chart, exception, log>>

\* lines 281-338
DataHistogram ==
    /\ pc = "histogram"
    /\ nuclei_distribution' = NucleiDistribution(df, args.histogram)
    /\ combined_sheet' = CombinedSheet(infected_summary_df, nuclei_distribution')
    /\ chart' = ChartRange(combined_sheet', args.histogram)
    /\ pc' = "done"
    /\ UNCHANGED <<args, disk, input_idx, df, total_cells, total_nuclei,
                   infected_summary_df, categories, outfile, used_sheet_names,
                   exception, log>>

NextData == DataFilter \/ DataSummarise \/ DataClassify \/ DataHistogram

SpecData == InitData /\ [][NextData]_vars

(***************************************************************************)
(* Paths (lines 254-264).                                                  *)
(***************************************************************************)
LastIndexOf(s, ch) ==
    LET hits == {i \in 1..Len(s) : SubSeq(s, i, i) = ch}
    IN  IF hits = {} THEN 0 ELSE CHOOSE i \in hits : \A j \in hits : j <= i

\* os.path.basename
basename(path) == SliceFrom(path, LastIndexOf(path, "/"))

\* os.path.splitext(name)[0], for a name without a directory part: the last
\* dot splits unless only dots precede it
splitext_root(name) ==
    LET dot == LastIndexOf(name, ".")
    IN  IF dot > 0 /\ \E i \in 1..(dot - 1) : SubSeq(name, i, i) # "."
        THEN SliceTo(name, dot - 1)
        ELSE name

\* lines 260-264: the while loop that probes the disk
RECURSIVE ProbeLoop(_, _, _, _)
ProbeLoop(original_outfile, candidate, counter, existing) ==
    IF candidate \in existing
    THEN ProbeLoop(original_outfile,
                   SliceTo(original_outfile, -5) \o "_" \o ToString(counter) \o ".xlsx",
                   counter + 1, existing)
    ELSE candidate

\* a variant without the existence probe
NoProbe(input_file, existing) ==
    "output_" \o splitext_root(basename(input_file)) \o ".xlsx"

\* lines 255-264
choose_outfile(input_file, existing) ==
    LET input_name_no_ext == splitext_root(basename(input_file))
        original_outfile == "output_" \o input_name_no_ext \o ".xlsx"
    IN  ProbeLoop(original_outfile, original_outfile, 1, existing)

(***************************************************************************)
(* Workbooks.  A sheet is [name, columns, rows, chart]; to_excel through a *)
(* writer in append mode with if_sheet_exists="replace" puts the new sheet *)
(* where a sheet of that name was, or at the end.                          *)
(***************************************************************************)
Sheet(name, columns, rows) == [name |-> name, columns |-> columns, rows |-> rows, chart |-> NoChart]

SheetNames(book) == [i \in 1..Len(book) |-> book[i].name]

WriteSheet(book, sheet) ==
    IF \E i \in 1..Len(book) : book[i].name = sheet.name
    THEN [i \in 1..Len(book) |-> IF book[i].name = sheet.name THEN sheet ELSE book[i]]
    ELSE Append(book, sheet)

SavedAs(path, book) ==
    [q \in (DOMAIN disk) \cup {path} |-> IF q = path THEN book ELSE disk[q]]

\* a variant that carries the names over from the file before
KeepUsed(used) == used

\* line 267
reset_used(used) == {}

\* lines 269-273: one allocator call and one sheet per category
RECURSIVE write_categories(_, _, _)
write_categories(cats, book, used) ==
    IF cats = <<>> THEN [book |-> book, used |-> used, written |-> <<>>]
    ELSE LET a == get_unique_sheet_name(Head(cats).name, used)
             rest == write_categories(Tail(cats),
                                      Append(book, Sheet(a.name, Head(cats).columns, Head(cats).rows)),
                                      a.used)
         IN  [rest EXCEPT !.written = <<a.name>> \o rest.written]

SummaryColumns == <<"Category", "Infected Cell Count", "Infected Nuclei Count",
                    "% of Total Cells", "% of Total Nuclei">>

\* lines 303-347
write_combined(book, rows, histogram) ==
    LET with_sheet == WriteSheet(book, Sheet("Cell Count Summary", SummaryColumns, rows))
    IN  [i \in 1..Len(with_sheet) |->
            IF with_sheet[i].name = "Cell Count Summary"
            THEN [with_sheet[i] EXCEPT !.chart = ChartRange(rows, histogram)]
            ELSE with_sheet[i]]

(***************************************************************************)
(* jane (lines 105-146).  summary_data is a dict keyed by column, so a     *)
(* column is held once, in first-occurrence order; the sheets are read     *)
(* before any summary sheet is written.                                    *)
(***************************************************************************)
RECURSIVE DictKeys(_)
DictKeys(cols) ==
    IF cols = <<>> THEN <<>>
    ELSE LET front == DictKeys(SubSeq(cols, 1, Len(cols) - 1))
             last == cols[Len(cols)]
         IN  IF last \in Range(front) THEN front ELSE Append(front, last)

\* lines 117-122: the series of one column, one per sheet that has it
summary_data(xls, col) ==
    LET having == SelectSeq(xls, LAMBDA sh : col \in Range(sh.columns))
    IN  [i \in 1..Len(having) |-> [sheet |-> having[i].name, length |-> Len(having[i].rows)]]

\* lines 136-141
RECURSIVE write_summaries(_, _, _, _)
write_summaries(cols, xls, book, used) ==
    IF cols = <<>> THEN [book |-> book, used |-> used, written |-> <<>>]
    ELSE LET data == summary_data(xls, Head(cols))
         IN  IF data = <<>>
             THEN write_summaries(Tail(cols), xls, book, used)
             ELSE LET a == get_unique_sheet_name(Head(cols) \o " Summary", used)
                      sh == Sheet(a.name, [i \in 1..Len(data) |-> data[i].sheet],
                                  [i \in 1..Len(data) |-> data[i].length])
                      rest == write_summaries(Tail(cols), xls, WriteSheet(book, sh), a.used)
                  IN  [rest EXCEPT !.written = <<a.name>> \o rest.written]

jane(book, summary_columns, used) ==
    write_summaries(DictKeys(summary_columns), book, book, used)

(***************************************************************************)
(* The reorder of lines 352-366.                                           *)
(***************************************************************************)
priority_order == <<"Cell Count Summary", "AreaShape_Area Summary", "Children_Nuclei_Count Sum">>

reorder(book) ==
    LET existing == SheetNames(book)
        reordered == SelectSeq(priority_order, LAMBDA n : n \in Range(existing))
                     \o SelectSeq(existing, LAMBDA n : n \notin Range(priority_order))
    IN  [i \in 1..Len(reordered) |->
            book[CHOOSE k \in 1..Len(book) : book[k].name = reordered[i]]]

(***************************************************************************)
(* Spec: the script's run over args.input (lines 154-366).  What an input  *)
(* path holds when it is read is the environment's choice: nothing, an     *)
(* empty source, or a header and rows.                                     *)
(***************************************************************************)
InputPaths == {"d/a.csv", "a_1.csv"}

ColumnNames == {"AreaShape_Area", "Children_Nuclei_Count", "Cell Count",
                "Multinucleated_Uninfected"}

SeqsUpTo(S, n) == UNION {[1..k -> S] : k \in 1..n}

NoRepeats(q) == \A i, j \in 1..Len(q) : i # j => q[i] # q[j]

ColumnLists == {q \in SeqsUpTo(ColumnNames, MaxCols) : NoRepeats(q)}

InputLists == SeqsUpTo(InputPaths, MaxInputs)

FullHeader == <<"ObjectNumber", "AreaShape_Area", "Children_Nuclei_Count",
                "Classify_Mononucleated", "Classify_Infected", "Cell Count",
                "Multinucleated_Uninfected">>

Without(header, col) == SelectSeq(header, LAMBDA c : c # col)

Headers == {FullHeader, Without(FullHeader, "Children_Nuclei_Count"),
            Without(FullHeader, "Classify_Infected")}

SampleRows == {MakeRows(<< <<1, 1, 0>>, <<0, 1, 3>>, <<0, 0, 2>> >>)}

\* a workbook that was on disk before the run
OldBook == <<Sheet("Sheet1", <<>>, <<>>)>>

PreExisting == {"output_a.xlsx", "output_a_1.xlsx"}

Entry(idx, path, outcome) ==
    [input |-> idx, path |-> path, outcome |-> outcome, outfile |-> "",
     existing |-> {}, used_at_start |-> {}, written |-> <<>>,
     summary_names |-> <<>>, before_reorder |-> <<>>, complete |-> FALSE]

SetLast(q, e) == [q EXCEPT ![Len(q)] = e]
Last(q) == q[Len(q)]

Init ==
    /\ args \in [input : InputLists, columns : ColumnLists,
                  remove_zero_nuclei : BOOLEAN, histogram : {DefaultHistogram}]
    /\ disk \in {[q \in S |-> OldBook] : S \in SUBSET PreExisting}
    /\ pc = "loop"
    /\ input_idx = 0
    /\ df = NoFrame
    /\ total_cells = 0
    /\ total_nuclei = 0
    /\ infected_summary_df = <<>>
    /\ categories = <<>>
    /\ outfile = ""
    /\ used_sheet_names = {}
    /\ nuclei_distribution = <<>>
    /\ combined_sheet = <<>>
    /\ chart = NoChart
    /\ exception = "none"
    /\ log = <<>>

AtNextInput == pc = "loop" /\ input_idx < Len(args.input)

\* lines 162-164, 169-171: the input is skipped
Skip(outcome) ==
    /\ AtNextInput
    /\ input_idx' = input_idx + 1
    /\ log' = Append(log, Entry(input_idx + 1, args.input[input_idx + 1], outcome))
    /\ UNCHANGED <<args, disk, pc, df, total_cells, total_nuclei, infected_summary_df,
                   categories, outfile, used_sheet_names, nuclei_distribution,
                   combined_sheet, chart, exception>>

SkipNotFound == Skip("not_found")

SkipEmptySource == Skip("empty")

\* lines 168, 172-174: usecols names a column the header lacks
SkipMissingColumns ==
    /\ \E header \in Headers :
          ~(Range(required_columns(args.columns)) \subseteq Range(header))
    /\ Skip("missing_columns")

\* lines 168-264 for a source that loads
Load(header, rows) ==
    /\ AtNextInput
    /\ Range(required_columns(args.columns)) \subseteq Range(header)
    /\ LET input_file == args.input[input_idx + 1]
           loaded == [columns |-> SelectSeq(header,
                                    LAMBDA c : c \in Range(required_columns(args.columns))),
                      rows |-> rows]
           d == filter_zero_nuclei(loaded, args.remove_zero_nuclei)
       IN  /\ input_idx' = input_idx + 1
           /\ df' = d
           /\ total_cells' = Len(d.rows)
           /\ IF ~HasColumn(d, "Children_Nuclei_Count")
              THEN \* line 193: KeyError, caught nowhere
                   /\ exception' = "KeyError"
                   /\ pc' = "crashed"
                   /\ log' = Append(log, Entry(input_idx + 1, input_file, "KeyError"))
                   /\ UNCHANGED <<total_nuclei, infected_summary_df, categories, outfile>>
              ELSE /\ total_nuclei' = OverallTotals(d).nuclei
                   /\ infected_summary_df' = SummaryTable(d)
                   /\ categories' = Categorise(d, args.columns)
                   /\ outfile' = choose_outfile(input_file, DOMAIN disk)
                   /\ pc' = "write_categories"
                   /\ log' = Append(log, [Entry(input_idx + 1, input_file, "artifact")
                                             EXCEPT !.outfile = outfile',
                                                    !.existing = DOMAIN disk])
                   /\ UNCHANGED exception
    /\ UNCHANGED <<args, disk, used_sheet_names, nuclei_distribution, combined_sheet, chart>>

\* lines 266-273
WriteCategories ==
    /\ pc = "write_categories"
    /\ LET used0 == reset_used(used_sheet_names)
           w == write_categories(categories, <<>>, used0)
       IN  /\ used_sheet_names' = w.used
           /\ disk' = SavedAs(outfile, w.book)
           /\ log' = SetLast(log, [Last(log) EXCEPT !.used_at_start = used0,
                                                     !.written = w.written])
    /\ pc' = "write_combined"
    /\ UNCHANGED <<args, input_idx, df, total_cells, total_nuclei, infected_summary_df,
                   categories, outfile, nuclei_distribution, combined_sheet, chart,
                   exception>>

\* lines 281-347
WriteCombined ==
    /\ pc = "write_combined"
    /\ nuclei_distribution' = NucleiDistribution(df, args.histogram)
    /\ combined_sheet' = CombinedSheet(infected_summary_df, nuclei_distribution')
    /\ chart' = ChartRange(combined_sheet', args.histogram)
    /\ disk' = SavedAs(outfile, write_combined(disk[outfile], combined_sheet', args.histogram))
    /\ log' = SetLast(log, [Last(log) EXCEPT
                               !.written = Append(@, "Cell Count Summary")])
    /\ pc' = "jane"
    /\ UNCHANGED <<args, input_idx, df, total_cells, total_nuclei, infected_summary_df,
                   categories, outfile, used_sheet_names, exception>>

\* line 350
RunJane ==
    /\ pc = "jane"
    /\ LET j == jane(disk[outfile], args.columns, used_sheet_names)
       IN  /\ used_sheet_names' = j.used
           /\ disk' = SavedAs(outfile, j.book)
           /\ log' = SetLast(log, [Last(log) EXCEPT !.written = @ \o j.written,
                                                     !.summary_names = j.written])
    /\ pc' = "reorder"
    /\ UNCHANGED <<args, input_idx, df, total_cells, total_nuclei, infected_summary_df,
                   categories, outfile, nuclei_distribution, combined_sheet, chart,
                   exception>>

\* lines 352-366
Reorder ==
    /\ pc = "reorder"
    /\ disk' = SavedAs(outfile, reorder(disk[outfile]))
    /\ log' = SetLast(log, [Last(log) EXCEPT
                               !.before_reorder = SheetNames(disk[outfile]),
                               !.complete = TRUE])
    /\ pc' = "loop"
    /\ UNCHANGED <<args, input_idx, df, total_cells, total_nuclei, infected_summary_df,
                   categories, outfile, used_sheet_names, nuclei_distribution,
                   combined_sheet, chart, exception>>

\* the for loop of line 159 runs out of inputs
Finish ==
    /\ pc = "loop"
    /\ input_idx = Len(args.input)
    /\ pc' = "exit"
    /\ UNCHANGED <<args, disk, input_idx, df, total_cells, total_nuclei,
                   infected_summary_df, categories, outfile, used_sheet_names,
                   nuclei_distribution, combined_sheet, chart, exception, log>>

Next ==
    \/ SkipNotFound
    \/ SkipEmptySource
    \/ SkipMissingColumns
    \/ \E header \in Headers, rows \in SampleRows : Load(header, rows)
    \/ WriteCategories
    \/ WriteCombined
    \/ RunJane
    \/ Reorder
    \/ Finish

Spec == Init /\ [][Next]_vars

(***************************************************************************)
(* Properties.                                                             *)
(***************************************************************************)
RECURSIVE SumOver(_, _)
SumOver(S, f) ==
    IF S = {} THEN 0
    ELSE LET x == CHOOSE y \in S : TRUE IN f[x] + SumOver(S \ {x}, f)

NoDuplicates(q) == \A i, j \in 1..Len(q) : i # j => q[i] # q[j]

Nuclei(rows) == [i \in 1..Len(rows) |-> rows[i].Children_Nuclei_Count]

InfectedRows(rows) == {i \in 1..Len(rows) : rows[i].Classify_Infected = 1}

\* the bucket the histogram contract gives a nuclei count n, as an index 1..h
ClaimedBucket(n, h) == IF n <= 1 THEN 1 ELSE IF n <= h - 1 THEN n ELSE h

ClaimedLabel(b, h) == IF b < h THEN ToString(b) ELSE ToString(h) \o "+"

ArtifactEntries == {i \in 1..Len(log) : log[i].outcome = "artifact"}

\* a percentage p is count / total * 100 rounded to 2 places
PctIsRounded(p, count, total) ==
    total > 0 =>
        /\ p.kind = "number"
        /\ 2 * (p.hundredths * total - count * 10000) <= total
        /\ 2 * (count * 10000 - p.hundredths * total) <= total

\* the count the histogram holds for a label
BucketCount(label) ==
    LET hits == {i \in 1..Len(nuclei_distribution) : nuclei_distribution[i].Category = label}
    IN  SumOver(hits, [i \in 1..Len(nuclei_distribution) |-> nuclei_distribution[i].cells])

\* the histogram rows of the combined sheet
BucketRows == SelectSeq(combined_sheet, LAMBDA r : r.kind = "bucket")

\* the base names of the enumerated input paths, and the output names
BaseName(path) ==
    CASE path = "d/a.csv" -> "a"
      [] path = "a_1.csv" -> "a_1"

OutputName(base, k) ==
    IF k = 0 THEN "output_" \o base \o ".xlsx"
    ELSE "output_" \o base \o "_" \o ToString(k) \o ".xlsx"

\* the per-column sheet names of a run over one file alone
SoloSummaryName(col) ==
    CASE col = "AreaShape_Area" -> "AreaShape_Area Summary"
      [] col = "Children_Nuclei_Count" -> "Children_Nuclei_Count Sum"
      [] col = "Cell Count" -> "Cell Count Summary"
      [] col = "Multinucleated_Uninfected" -> "Multinucleated_Uninfect_1"


----------------------------------------------------------------------------
\* C1: after the optional zero-nuclei filter, every record of the record set
\* counted as total cells lies in exactly one of the four category record
\* sets, and the categories hold nothing else.
C1_Partition ==
    pc \in {"histogram", "done"} =>
        /\ \A i \in 1..Len(df.rows) :
              Cardinality({k \in 1..Len(categories) :
                             df.rows[i] \in Range(categories[k].rows)}) = 1
        /\ \A k \in 1..Len(categories) : Range(categories[k].rows) \subseteq Range(df.rows)
        /\ SumOver(1..Len(categories), [k \in 1..Len(categories) |-> Len(categories[k].rows)])
              = total_cells

----------------------------------------------------------------------------
\* C2: the summary table has the mono-infected and multi-infected rows with
\* their cell counts and nuclei sums, a Total Infected row that is their sum,
\* percentages of the totals over all records rounded to 2 places, and a last
\* row with the overall totals and no percentages.
C2_SummaryTable ==
    pc \in {"classify", "histogram", "done"} =>
        LET rows == df.rows
            t == infected_summary_df
            mono == {i \in InfectedRows(rows) : rows[i].Classify_Mononucleated = 1}
            multi == {i \in InfectedRows(rows) : rows[i].Classify_Mononucleated = 0}
        IN  /\ Len(t) = 4
            /\ t[1].Category = "Mononucleated Infected"
            /\ t[1].cells = Cardinality(mono)
            /\ t[1].nuclei = SumOver(mono, Nuclei(rows))
            /\ t[2].Category = "Multinucleated Infected"
            /\ t[2].cells = Cardinality(multi)
            /\ t[2].nuclei = SumOver(multi, Nuclei(rows))
            /\ t[3].Category = "Total Infected"
            /\ t[3].cells = t[1].cells + t[2].cells
            /\ t[3].nuclei = t[1].nuclei + t[2].nuclei
            /\ t[4].cells = Len(rows)
            /\ t[4].nuclei = SumOver(1..Len(rows), Nuclei(rows))
            /\ t[4].pct_cells.kind = "empty"
            /\ t[4].pct_nuclei.kind = "empty"
            /\ total_cells = t[4].cells
            /\ total_nuclei = t[4].nuclei
            /\ \A k \in 1..3 :
                  /\ PctIsRounded(t[k].pct_cells, t[k].cells, t[4].cells)
                  /\ PctIsRounded(t[k].pct_nuclei, t[k].nuclei, t[4].nuclei)
            /\ rows = ExampleSummaryRows =>
                  /\ <<t[1].pct_cells.hundredths, t[1].pct_nuclei.hundredths>> = <<4000, 4000>>
                  /\ <<t[2].pct_cells.hundredths, t[2].pct_nuclei.hundredths>> = <<2000, 2500>>
                  /\ <<t[3].pct_cells.hundredths, t[3].pct_nuclei.hundredths>> = <<6000, 6500>>
                  /\ <<t[4].cells, t[4].nuclei>> = <<10, 20>>

C2_Witness ==
    /\ pc = "done"
    /\ df.rows = ExampleSummaryRows
    /\ infected_summary_df[3].cells = 6
    /\ infected_summary_df[3].pct_nuclei.hundredths = 6500

----------------------------------------------------------------------------
\* C8: every infected record is counted in exactly one bucket: "1" for a
\* nuclei count of 0 or 1, "n" for 2 <= n <= maxBin-1, "maxBin+" for
\* n >= maxBin; the bucket counts sum to the number of infected records.
C8_HistogramBuckets ==
    pc = "done" =>
        LET rows == df.rows
            h == args.histogram
        IN  /\ \A b \in 1..h :
                  BucketCount(ClaimedLabel(b, h)) =
                      Cardinality({i \in InfectedRows(rows) :
                                     ClaimedBucket(rows[i].Children_Nuclei_Count, h) = b})
            /\ SumOver(1..Len(nuclei_distribution),
                       [i \in 1..Len(nuclei_distribution) |-> nuclei_distribution[i].cells])
                  = Cardinality(InfectedRows(rows))
            /\ (rows = ExampleHistogramRows /\ h = 5) =>
                  <<BucketCount("1"), BucketCount("2"), BucketCount("5+")>> = <<2, 1, 2>>

C8_Witness ==
    /\ pc = "done"
    /\ \E i, j \in InfectedRows(df.rows) :
          /\ df.rows[i].Children_Nuclei_Count = 0
          /\ df.rows[j].Children_Nuclei_Count = args.histogram
    /\ BucketCount("1") = 1
    /\ BucketCount(ClaimedLabel(args.histogram, args.histogram)) = 1

----------------------------------------------------------------------------
\* C9 as claimed: the histogram rows of the combined sheet are only buckets
\* with a count of at least 1.
C9_OnlyNonEmptyBuckets ==
    pc = "done" => \A i \in 1..Len(BucketRows) : BucketRows[i].cells >= 1

\* C9 as amended: the combined sheet ends with one row for every bucket
\* "1" .. "maxBin-1", "maxBin+", in that order, a bucket without records
\* carrying the count 0, and the chart's references cover exactly these rows.
C9_EveryBucketHasARow ==
    pc = "done" =>
        LET h == args.histogram
            n == Len(combined_sheet)
        IN  /\ Len(BucketRows) = h
            /\ \A b \in 1..h :
                  /\ BucketRows[b].Category = ClaimedLabel(b, h)
                  /\ BucketRows[b].cells =
                        Cardinality({i \in InfectedRows(df.rows) :
                            ClaimedBucket(df.rows[i].Children_Nuclei_Count, h) = b})
                  /\ combined_sheet[n - h + b] = BucketRows[b]
            /\ combined_sheet[n - h].kind = "header"
            /\ DataRow(chart.min_row) = n - h + 1
            /\ DataRow(chart.max_row) = n

C9_Witness ==
    /\ pc = "done"
    /\ df.rows = ExampleHistogramRows
    /\ \E i, j \in 1..Len(BucketRows) :
          /\ BucketRows[i].Category = "3" /\ BucketRows[i].cells = 0
          /\ BucketRows[j].Category = "4" /\ BucketRows[j].cells = 0

----------------------------------------------------------------------------
\* C5: within one scope every allocator call terminates and returns a name
\* of at most max_length characters that no earlier call of the scope
\* returned; the name is recorded as used; an unused truncated candidate is
\* returned as it is.
C5_UniqueNames ==
    \A i \in 1..Len(log) :
        LET e == log[i] IN
        /\ Len(e.name) <= max_length
        /\ \A j \in 1..(i - 1) : log[j].name # e.name
        /\ e.name \notin e.before
        /\ e.name \in used_sheet_names
        /\ e.iterations <= Cardinality(e.before) + 1
        /\ SliceTo(e.candidate, max_length) \notin e.before
              => e.name = SliceTo(e.candidate, max_length)

C5_Witness ==
    /\ pc = "alloc"
    /\ \E i \in 1..Len(log) :
          /\ log[i].iterations = 2
          /\ log[i].candidate = "Multinucleated_Uninfected Summary"
          /\ log[i].name = "Multinucleated_Uninfect_2"

----------------------------------------------------------------------------
\* C3 as claimed: the output path chosen for an input does not exist when it
\* is chosen; it is output_<base>.xlsx when that is free, otherwise
\* output_<base>_<k>.xlsx for the smallest free k >= 1; and the same input
\* processed a second time gets the suffix _1.
C3_SecondRunGetsSuffixOne ==
    \A i \in ArtifactEntries :
        LET e == log[i]
            base == BaseName(e.path)
            earlier == {j \in ArtifactEntries : j < i /\ log[j].path = e.path}
        IN  /\ e.outfile \notin e.existing
            /\ \E k \in 0..Cardinality(e.existing) :
                  /\ e.outfile = OutputName(base, k)
                  /\ \A j \in 0..(k - 1) : OutputName(base, j) \in e.existing
            /\ Cardinality(earlier) = 1 =>
                  /\ \A j \in earlier : log[j].outfile # e.outfile
                  /\ e.outfile = OutputName(base, 1)

\* C3 as amended: the output path chosen for an input does not exist when it
\* is chosen: it is output_<base>.xlsx when that is free, otherwise
\* output_<base>_<k>.xlsx for the smallest free k >= 1; no two inputs of a
\* run get the same path and a file that was on disk is left as it was; the
\* same input processed again gets the suffix _1 when its earlier artifact is
\* output_<base>.xlsx and output_<base>_1.xlsx is free.
C3_OutputPathFree ==
    /\ \A i \in ArtifactEntries :
          LET e == log[i]
              base == BaseName(e.path)
          IN  /\ e.outfile \notin e.existing
              /\ \E k \in 0..Cardinality(e.existing) :
                    /\ e.outfile = OutputName(base, k)
                    /\ \A j \in 0..(k - 1) : OutputName(base, j) \in e.existing
              /\ \A j \in ArtifactEntries : j < i => log[j].outfile # e.outfile
              /\ \A j \in ArtifactEntries :
                    (j < i /\ log[j].path = e.path /\ log[j].outfile = OutputName(base, 0)
                       /\ OutputName(base, 1) \notin e.existing)
                    => e.outfile = OutputName(base, 1)
              /\ e.complete => e.outfile \in DOMAIN disk
    /\ \A q \in DOMAIN disk :
          (\A i \in ArtifactEntries : log[i].outfile # q) => disk[q] = OldBook

C3_Witness ==
    \E i, j \in ArtifactEntries :
        /\ i < j
        /\ log[i].path = "d/a.csv" /\ log[j].path = "d/a.csv"
        /\ log[i].complete /\ log[j].complete
        /\ log[i].outfile = "output_a.xlsx"
        /\ log[j].outfile = "output_a_1.xlsx"
        /\ {"output_a.xlsx", "output_a_1.xlsx"} \subseteq DOMAIN disk

----------------------------------------------------------------------------
\* C4: an input that fails (path absent, source empty, required column
\* absent) produces no artifact and does not end the run: when the script
\* stops, every input of the list has been taken up and none ended it.
C4_FailureIsolated ==
    /\ \A i \in 1..Len(log) :
          log[i].outcome # "artifact" => log[i].outfile \notin DOMAIN disk
    /\ pc \in {"exit", "crashed"} =>
          /\ exception = "none"
          /\ Len(log) = Len(args.input)
          /\ \A i \in 1..Len(log) :
                log[i].outcome \in {"not_found", "empty", "missing_columns", "artifact"}

----------------------------------------------------------------------------
\* C6: the used-name set is empty when a file's artifact construction
\* starts, so in every artifact the category sheets and the per-column
\* summary sheets have the names a run over that file alone gives them.
C6_FreshNamesPerFile ==
    \A i \in ArtifactEntries :
        LET e == log[i] IN
        /\ e.used_at_start = {}
        /\ Len(e.written) >= 4 => SubSeq(e.written, 1, 4) = CategoryNames
        /\ e.complete =>
              /\ e.summary_names =
                    [k \in 1..Len(args.columns) |-> SoloSummaryName(args.columns[k])]
              /\ Range(e.summary_names) \subseteq Range(SheetNames(disk[e.outfile]))
              /\ Range(CategoryNames) \subseteq Range(SheetNames(disk[e.outfile]))

C6_Witness ==
    \E i, j \in ArtifactEntries :
        /\ i < j
        /\ log[i].complete /\ log[j].complete
        /\ log[j].summary_names = <<"AreaShape_Area Summary", "Children_Nuclei_Count Sum">>
        /\ SubSeq(log[j].written, 1, 4) = CategoryNames

----------------------------------------------------------------------------
\* C7: in the finished artifact the combined summary sheet comes first, then
\* the per-column summary sheets in the order the columns were requested,
\* then every other sheet in its prior relative order.
C7_SheetOrder ==
    \A i \in ArtifactEntries :
        LET e == log[i] IN
        e.complete =>
            SheetNames(disk[e.outfile]) =
                <<"Cell Count Summary">>
                \o e.summary_names
                \o SelectSeq(e.before_reorder,
                             LAMBDA n : n # "Cell Count Summary"
                                        /\ n \notin Range(e.summary_names))

----------------------------------------------------------------------------
\* C10: while one artifact is built no sheet write replaces a sheet an
\* earlier step wrote: the four category sheets, 'Cell Count Summary' and the
\* per-column summary sheets have pairwise distinct names and all of them
\* are sheets of the finished artifact.
C10_NoSheetReplaced ==
    \A i \in ArtifactEntries :
        LET e == log[i] IN
        /\ NoDuplicates(e.written)
        /\ e.complete =>
              /\ Len(e.written) = 4 + 1 + Len(args.columns)
              /\ Len(disk[e.outfile]) = Len(e.written)
              /\ Range(SheetNames(disk[e.outfile])) = Range(e.written)

====
